---- MODULE Spec2Model ----
(***************************************************************************)
(* A model of pgcli/pgexecute.py: the connection-string parser _parse_dsn  *)
(* and the PGExecute class (construction, run, and the driver and          *)
(* pgspecial collaborators it calls).                                      *)
(*                                                                         *)
(* Python strings are sequences of one-character strings.  An optional     *)
(* value (None or a value) is a sequence of length 0 or 1.  Inside         *)
(* _parse_dsn the locals are only ever tested for truthiness, where None   *)
(* and '' behave alike, so both are the empty sequence there.              *)
(***************************************************************************)
EXTENDS Integers, Sequences, FiniteSets, TLC

VARIABLES
    dsn,          \* the `database` argument of PGExecute.__init__ / _parse_dsn
    defaults,     \* <<user, password, host, port>> arguments
    resolved,     \* None, or Some(the 5-tuple _parse_dsn returned)
    pc,           \* "new": not constructed; "ready": constructed; "failed": __init__ raised
    self,         \* the PGExecute instance: dbname, user, password, host, port, conn
    connections,  \* driver side: every connection psycopg2.connect has returned
    call,         \* what the last call did and returned
    live,         \* driver side: the connections (indices) that are still open
    cursors,      \* driver side: the number of cursors that are open
    created       \* server side: the databases in which table t2 has been created

vars == <<dsn, defaults, resolved, pc, self, connections, call, live, cursors, created>>

None == <<>>
Some(v) == <<v>>

\* ------------------------------------------------------------------ bounds
MaxDsnLen == 4
MaxConns == 2

\* ------------------------------------------------------- Python str methods
RECURSIVE SeqsUpTo(_, _)
SeqsUpTo(S, n) ==
    IF n = 0 THEN {<<>>}
    ELSE LET shorter == SeqsUpTo(S, n - 1)
         IN  shorter \cup {Append(s, c) : s \in {t \in shorter : Len(t) = n - 1}, c \in S}

startswith(s, prefix) ==
    Len(s) >= Len(prefix) /\ SubSeq(s, 1, Len(prefix)) = prefix

contains(s, c) == \E i \in 1..Len(s) : s[i] = c

\* index of the first occurrence of c in s, 0 when there is none
find(s, c) ==
    IF contains(s, c)
    THEN CHOOSE i \in 1..Len(s) : s[i] = c /\ \A j \in 1..(i - 1) : s[j] # c
    ELSE 0

\* the split made at the last c instead of the first (rpartition)
Mut_partition_Last(s, c) ==
    IF ~contains(s, c) THEN <<s, <<>>, <<>>>>
    ELSE LET i == CHOOSE k \in 1..Len(s) : s[k] = c /\ \A j \in (k + 1)..Len(s) : s[j] # c
         IN  <<SubSeq(s, 1, i - 1), <<c>>, SubSeq(s, i + 1, Len(s))>>

\* s.partition(c): <<head, separator, tail>> around the first c
partition(s, c) ==
    LET i == find(s, c)
    IN  IF i = 0 THEN <<s, <<>>, <<>>>>
        ELSE <<SubSeq(s, 1, i - 1), <<c>>, SubSeq(s, i + 1, Len(s))>>

\* Python `a or b` on strings / None
OrElse(a, b) == IF a # <<>> THEN a ELSE b

Whitespace == {" ", "\n", "\t"}

RECURSIVE lstrip(_)
lstrip(s) == IF s # <<>> /\ Head(s) \in Whitespace THEN lstrip(Tail(s)) ELSE s

\* s.rstrip(chars): drops every trailing character that is in chars
RECURSIVE rstrip(_, _)
rstrip(s, chars) ==
    IF s # <<>> /\ s[Len(s)] \in chars
    THEN rstrip(SubSeq(s, 1, Len(s) - 1), chars)
    ELSE s

\* s.strip()
strip(s) == rstrip(lstrip(s), Whitespace)

LowerChar(c) ==
    CASE c = "U" -> "u" [] c = "S" -> "s" [] c = "E" -> "e" [] c = "C" -> "c"
      [] c = "D" -> "d" [] c = "Q" -> "q" [] OTHER -> c

\* s.lower()
lower(s) == IF s = <<>> THEN <<>> ELSE [i \in 1..Len(s) |-> LowerChar(s[i])]

\* length of the leading run of non-whitespace characters of s
RECURSIVE TokenLen(_)
TokenLen(s) == IF s = <<>> \/ Head(s) \in Whitespace THEN 0 ELSE 1 + TokenLen(Tail(s))

\* s.split(): the whitespace-delimited tokens of s
RECURSIVE split(_)
split(s) ==
    LET t == lstrip(s)
        n == TokenLen(t)
    IN  IF t = <<>> THEN <<>>
        ELSE <<SubSeq(t, 1, n)>> \o split(SubSeq(t, n + 1, Len(t)))

\* ------------------------------------------------------------- _parse_dsn
PostgresScheme == <<"p", "o", "s", "t", "g", "r", "e", "s", ":", "/", "/">>
PostgresqlScheme == <<"p", "o", "s", "t", "g", "r", "e", "s", "q", "l", ":", "/", "/">>

StripScheme(d) ==
    IF startswith(d, PostgresScheme)
    THEN SubSeq(d, Len(PostgresScheme) + 1, Len(d))
    ELSE IF startswith(d, PostgresqlScheme)
    THEN SubSeq(d, Len(PostgresqlScheme) + 1, Len(d))
    ELSE d

_parse_dsn(d, default_user, default_password, default_host, default_port) ==
    LET rest     == StripScheme(d)
        slash    == contains(rest, "/")
        bySlash  == partition(rest, "/")
        host0    == IF slash THEN bySlash[1] ELSE None
        dbname0  == IF slash THEN bySlash[3] ELSE None
        at       == slash /\ contains(host0, "@")
        byAt     == partition(host0, "@")
        user1    == IF at THEN byAt[1] ELSE None
        host1    == IF at THEN byAt[3] ELSE host0
        colon    == slash /\ contains(host1, ":")
        byColon  == partition(host1, ":")
        host2    == IF colon THEN byColon[1] ELSE host1
        port2    == IF colon THEN byColon[3] ELSE None
        ucolon   == slash /\ user1 # <<>> /\ contains(user1, ":")
        byUColon == partition(user1, ":")
        user3    == IF ucolon THEN byUColon[1] ELSE user1
        password3 == IF ucolon THEN byUColon[3] ELSE None
    IN  << OrElse(dbname0, rest),
           OrElse(user3, default_user),
           OrElse(password3, default_password),
           OrElse(host2, default_host),
           OrElse(port2, default_port) >>

\* ------------------------------------------------------------ collaborators
BS == "\\"

\* psycopg2.connect(...): a fresh connection; autocommit is off until set
Connect(database, user, password, host, port) ==
    [database |-> database, user |-> user, password |-> password,
     host |-> host, port |-> port, autocommit |-> FALSE]

\* a forgotten `conn.autocommit = True`
Mut_SetAutocommit_Forgotten(c) == c

\* conn.autocommit = True
SetAutocommit(c) == [c EXCEPT !.autocommit = TRUE]

\* what the cursor holds after a cur.execute that did not raise:
\* description (None, or a sequence of <<name, type>> columns), the rows
\* fetchall() gives, and statusmessage
QueryReplies ==
    { [description |-> None, rows |-> <<>>, statusmessage |-> <<"CREATE TABLE">>],
      [description |-> None, rows |-> <<>>, statusmessage |-> <<"INSERT 0 1">>],
      [description |-> Some(<< <<"c1", "int4">> >>), rows |-> << <<"v1">> >>,
       statusmessage |-> <<"SELECT 1">>],
      [description |-> Some(<< <<"c1", "int4">>, <<"c2", "text">> >>), rows |-> <<>>,
       statusmessage |-> <<"SELECT 0">>] }

\* a result entry is the tuple (rows, headers, status), each None or Some(value)
Entry(rows, headers, status) == <<rows, headers, status>>

\* pgspecial: the commands its table knows, keyed by the leading token
SpecialCommands == { <<BS, "d">> }

SpecialRecognizes(sql) ==
    split(sql) # <<>> /\ split(sql)[1] \in SpecialCommands

\* what pgspecial.execute may return for a command it knows
SpecialResults ==
    { <<>>,
      << Entry(Some(<< <<"t1">> >>), Some(<<"Name">>), None) >>,
      << Entry(Some(<< <<"c1">> >>), Some(<<"Column">>), None),
         Entry(None, None, Some(<<"Indexes:">>)) >> }

\* ----------------------------------------------------------- PGExecute
\* the record of one call: the argument, how it ended, what it returned and
\* every collaborator operation it performed
\* (connects: the connect attempts; cursor: the connection the cursor was taken
\* on, released by the `with` block on every exit; special, executed: the texts
\* given to pgspecial.execute and to cur.execute; reply: the cursor's state
\* after a cur.execute that returned)
Call(op, sql, outcome, error, result, connects, cursor, special, executed, reply) ==
    [op |-> op, sql |-> sql, outcome |-> outcome, error |-> error,
     result |-> result, connects |-> connects, cursor |-> cursor,
     cursorOpen |-> FALSE, special |-> special, executed |-> executed,
     reply |-> reply]

NoCall == Call("none", <<>>, "none", "", <<>>, <<>>, None, <<>>, <<>>, None)

NoSelf == [dbname |-> None, user |-> None, password |-> None, host |-> None,
           port |-> None, conn |-> 0]

\* PGExecute(database, user, password, host, port); ok: the connect succeeds
__init__(ok) ==
    /\ pc = "new"
    /\ LET r == _parse_dsn(dsn, defaults[1], defaults[2], defaults[3], defaults[4])
           c == Connect(r[1], r[2], r[3], r[4], r[5])
       IN  IF ok
           THEN /\ connections' = Append(connections, SetAutocommit(c))
                /\ self' = [dbname |-> r[1], user |-> r[2], password |-> r[3],
                            host |-> r[4], port |-> r[5], conn |-> Len(connections) + 1]
                /\ pc' = "ready"
                /\ live' = live \cup {Len(connections) + 1}
                /\ call' = Call("__init__", dsn, "returned", "", <<>>,
                                <<c>>, None, <<>>, <<>>, None)
           ELSE /\ pc' = "failed"
                /\ call' = Call("__init__", dsn, "raised", "OperationalError", <<>>,
                                <<c>>, None, <<>>, <<>>, None)
                /\ UNCHANGED <<self, connections, live>>
    /\ UNCHANGED <<dsn, defaults, resolved, cursors, created>>

\* only the last semicolon dropped
Mut_Normalize_OneSemicolon(sql) ==
    LET s == strip(sql)
    IN  IF s # <<>> /\ s[Len(s)] = ";" THEN SubSeq(s, 1, Len(s) - 1) ELSE s

\* the text run() classifies and sends on: strip(), then rstrip(';')
Normalize(sql) == rstrip(strip(sql), {";"})

\* sql.startswith('\c') or sql.lower().startswith('use')
IsSwitch(sql) ==
    startswith(sql, <<BS, "c">>) \/ startswith(lower(sql), <<"u", "s", "e">>)

\* run(''): the empty string returns at once
RunEmpty(sql) ==
    /\ pc = "ready"
    /\ sql = <<>>
    /\ call' = Call("run", sql, "returned", "", << Entry(None, None, None) >>,
                    <<>>, None, <<>>, <<>>, None)
    /\ UNCHANGED <<dsn, defaults, resolved, pc, self, connections, live, cursors, created>>

\* the missing target swallowed: an empty result instead of the error
Mut_SwitchMissing_ReturnsEmpty(sql) ==
    /\ call' = Call("run", sql, "returned", "", << Entry(None, None, None) >>,
                    <<>>, None, <<>>, <<>>, None)
    /\ UNCHANGED <<self, connections, live>>

\* sql.split()[1] raised: RuntimeError('Database name missing.')
SwitchMissing(sql) ==
    /\ call' = Call("run", sql, "raised", "RuntimeError", <<>>,
                    <<>>, None, <<>>, <<>>, None)
    /\ UNCHANGED <<self, connections, live>>

\* self.dbname assigned before the connect that raises
Mut_SwitchFailed_AssignsFirst(sql, dbname) ==
    /\ call' = Call("run", sql, "raised", "OperationalError", <<>>,
                    <<Connect(dbname, self.user, self.password, self.host, self.port)>>,
                    None, <<>>, <<>>, None)
    /\ self' = [self EXCEPT !.dbname = dbname]
    /\ UNCHANGED <<connections, live>>

\* psycopg2.connect raised: nothing has been assigned yet
SwitchFailed(sql, dbname) ==
    /\ call' = Call("run", sql, "raised", "OperationalError", <<>>,
                    <<Connect(dbname, self.user, self.password, self.host, self.port)>>,
                    None, <<>>, <<>>, None)
    /\ UNCHANGED <<self, connections, live>>

SwitchMessage(dbname, user) ==
    <<"You are now connected to database \"">> \o dbname \o
    <<"\" as user \"">> \o user \o <<"\"">>

\* `self.conn = psycopg2.connect(...)` binds the new connection and drops the
\* only reference to the old one, which run() never closes: the old
\* connections stay open until the runtime finalizes the unreferenced objects
\* (collected), which it may do at once or not at all
Rebind(open, new, collected) ==
    IF collected THEN {new} ELSE open \cup {new}

\* the new connection installed without recording its database name
Mut_SwitchConnected_KeepsDbname(sql, dbname) ==
    LET c == Connect(dbname, self.user, self.password, self.host, self.port)
    IN  /\ connections' = Append(connections, SetAutocommit(c))
        /\ self' = [self EXCEPT !.conn = Len(connections) + 1]
        /\ \E collected \in BOOLEAN : live' = Rebind(live, Len(connections) + 1, collected)
        /\ call' = Call("run", sql, "returned", "",
                        << Entry(None, None, Some(SwitchMessage(self.dbname, self.user))) >>,
                        <<c>>, None, <<>>, <<>>, None)

\* psycopg2.connect returned: self.conn, self.dbname, autocommit, the message
SwitchConnected(sql, dbname) ==
    LET c == Connect(dbname, self.user, self.password, self.host, self.port)
    IN  /\ connections' = Append(connections, SetAutocommit(c))
        /\ self' = [self EXCEPT !.conn = Len(connections) + 1, !.dbname = dbname]
        /\ \E collected \in BOOLEAN : live' = Rebind(live, Len(connections) + 1, collected)
        /\ call' = Call("run", sql, "returned", "",
                        << Entry(None, None, Some(SwitchMessage(dbname, self.user))) >>,
                        <<c>>, None, <<>>, <<>>, None)

\* run() of a \c or use command; ok: the connect succeeds
RunSwitch(sql, ok) ==
    /\ pc = "ready"
    /\ sql # <<>>
    /\ IsSwitch(Normalize(sql))
    /\ LET tokens == split(Normalize(sql))
       IN  IF Len(tokens) < 2 THEN SwitchMissing(sql)
           ELSE IF ok THEN Len(connections) < MaxConns /\ SwitchConnected(sql, tokens[2])
           ELSE SwitchFailed(sql, tokens[2])
    /\ UNCHANGED <<dsn, defaults, resolved, pc, cursors, created>>

\* [x[0] for x in cur.description]
Headers(description) == [i \in 1..Len(description) |-> description[i][1]]

\* rows tested for truth: an empty result set comes back as None
Mut_PlainResult_EmptyRowsAbsent(reply) ==
    IF reply.description # None /\ reply.description[1] # <<>>
    THEN << Entry(IF reply.rows = <<>> THEN None ELSE Some(reply.rows),
                  Some(Headers(reply.description[1])), Some(reply.statusmessage)) >>
    ELSE << Entry(None, None, Some(reply.statusmessage)) >>

\* the result list run() builds from the cursor after cur.execute returned
PlainResult(reply) ==
    IF reply.description # None /\ reply.description[1] # <<>>
    THEN << Entry(Some(reply.rows), Some(Headers(reply.description[1])),
                  Some(reply.statusmessage)) >>
    ELSE << Entry(None, None, Some(reply.statusmessage)) >>

\* a handled command also sent to cur.execute as plain SQL
Mut_QuerySpecial_AlsoExecutes(sql, n, raises) ==
    /\ SpecialRecognizes(n)
    /\ IF raises
       THEN call' = Call("run", sql, "raised", "ProgrammingError", <<>>,
                         <<>>, Some(self.conn), <<n>>, <<n>>, None)
       ELSE \E results \in SpecialResults :
              call' = Call("run", sql, "returned", "", results,
                           <<>>, Some(self.conn), <<n>>, <<n>>, None)

\* pgspecial.execute(cur, sql) knew the command: its results, or its error
QuerySpecial(sql, n, raises) ==
    /\ SpecialRecognizes(n)
    /\ IF raises
       THEN call' = Call("run", sql, "raised", "ProgrammingError", <<>>,
                         <<>>, Some(self.conn), <<n>>, <<>>, None)
       ELSE \E results \in SpecialResults :
              call' = Call("run", sql, "returned", "", results,
                           <<>>, Some(self.conn), <<n>>, <<>>, None)

\* a failed cur.execute tried a second time before giving up
Mut_QueryPlain_Retries(sql, n, raises) ==
    /\ ~SpecialRecognizes(n)
    /\ IF raises
       THEN call' = Call("run", sql, "raised", "ProgrammingError", <<>>,
                         <<>>, Some(self.conn), <<n>>, <<n, n>>, None)
       ELSE \E reply \in QueryReplies :
              call' = Call("run", sql, "returned", "", PlainResult(reply),
                           <<>>, Some(self.conn), <<n>>, <<n>>, Some(reply))

\* pgspecial.execute raised KeyError: cur.execute(sql), once
QueryPlain(sql, n, raises) ==
    /\ ~SpecialRecognizes(n)
    /\ IF raises
       THEN call' = Call("run", sql, "raised", "ProgrammingError", <<>>,
                         <<>>, Some(self.conn), <<n>>, <<n>>, None)
       ELSE \E reply \in QueryReplies :
              call' = Call("run", sql, "returned", "", PlainResult(reply),
                           <<>>, Some(self.conn), <<n>>, <<n>>, Some(reply))

\* self.conn.cursor() and entering the `with` block: one more open cursor
CursorEnter(n) == n + 1

\* a `with` block that leaves its cursor open
Mut_CursorExit_Leaks(n) == n

\* leaving the `with` block, by return or by exception: the cursor is closed
CursorExit(n) == n - 1

\* run() of anything else, inside `with self.conn.cursor() as cur`
RunQuery(sql, raises) ==
    /\ pc = "ready"
    /\ sql # <<>>
    /\ ~IsSwitch(Normalize(sql))
    /\ QuerySpecial(sql, Normalize(sql), raises) \/ QueryPlain(sql, Normalize(sql), raises)
    /\ cursors' = CursorExit(CursorEnter(cursors))
    /\ created' = IF call'.reply # None /\ call'.reply[1].statusmessage = <<"CREATE TABLE">>
                  THEN created \cup {connections[self.conn].database}
                  ELSE created
    /\ UNCHANGED <<dsn, defaults, resolved, pc, self, connections, live>>

\* PGExecute.run(sql)
run(sql) ==
    \/ RunEmpty(sql)
    \/ \E ok \in BOOLEAN : RunSwitch(sql, ok)
    \/ \E raises \in BOOLEAN : RunQuery(sql, raises)

\* ------------------------------------------------ introspection helpers
\* the database the current connection was opened against
CurrentDatabase == connections[self.conn].database

TableNames == {"t1", "t2"}

\* the server's catalog: database a holds table t1; t2 is wherever a
\* CREATE TABLE has put it
TablesIn(database) ==
    (IF database = <<"a">> THEN {"t1"} ELSE {}) \cup
    (IF database \in created THEN {"t2"} ELSE {})

\* fetchall() after tables_query: one row per visible table, ordered by name
TablesRows(database) ==
    (IF "t1" \in TablesIn(database) THEN << <<"t1">> >> ELSE <<>>) \o
    (IF "t2" \in TablesIn(database) THEN << <<"t2">> >> ELSE <<>>)

\* fetchall() after columns_query with (table,)
ColumnsRows(database, table) ==
    IF table \notin TablesIn(database) THEN <<>>
    ELSE IF table = "t1" THEN << <<"id">>, <<"x">> >>
    ELSE << <<"id">>, <<"y">> >>

\* fetchall() after databases_query: name, owner, ...
DatabasesRows == << <<"a", "U">>, <<"b", "U">>, <<"db", "U">> >>

\* [x[0] for x in cur.fetchall()]
FirstColumn(rows) == IF rows = <<>> THEN <<>> ELSE [i \in 1..Len(rows) |-> rows[i][1]]

Range(s) == {s[i] : i \in 1..Len(s)}

\* PGExecute.tables(); raises: cur.execute raises
tables(raises) ==
    /\ pc = "ready"
    /\ call' = IF raises
               THEN Call("tables", <<>>, "raised", "ProgrammingError", <<>>,
                         <<>>, Some(self.conn), <<>>, << <<"tables_query">> >>, None)
               ELSE Call("tables", <<>>, "returned", "",
                         FirstColumn(TablesRows(CurrentDatabase)),
                         <<>>, Some(self.conn), <<>>, << <<"tables_query">> >>, None)
    /\ cursors' = CursorExit(CursorEnter(cursors))
    /\ UNCHANGED <<dsn, defaults, resolved, pc, self, connections, live, created>>

\* PGExecute.columns(table)
columns(table, raises) ==
    /\ pc = "ready"
    /\ call' = IF raises
               THEN Call("columns", <<table>>, "raised", "ProgrammingError", <<>>,
                         <<>>, Some(self.conn), <<>>,
                         << <<"columns_query", table>> >>, None)
               ELSE Call("columns", <<table>>, "returned", "",
                         FirstColumn(ColumnsRows(CurrentDatabase, table)),
                         <<>>, Some(self.conn), <<>>,
                         << <<"columns_query", table>> >>, None)
    /\ cursors' = CursorExit(CursorEnter(cursors))
    /\ UNCHANGED <<dsn, defaults, resolved, pc, self, connections, live, created>>

\* PGExecute.databases()
databases(raises) ==
    /\ pc = "ready"
    /\ call' = IF raises
               THEN Call("databases", <<>>, "raised", "ProgrammingError", <<>>,
                         <<>>, Some(self.conn), <<>>, << <<"databases_query">> >>, None)
               ELSE Call("databases", <<>>, "returned", "", FirstColumn(DatabasesRows),
                         <<>>, Some(self.conn), <<>>, << <<"databases_query">> >>, None)
    /\ cursors' = CursorExit(CursorEnter(cursors))
    /\ UNCHANGED <<dsn, defaults, resolved, pc, self, connections, live, created>>

\* the loop left after its first table
Mut_UnionColumns_FirstTableOnly(database, names) ==
    IF names = <<>> THEN {}
    ELSE Range(FirstColumn(ColumnsRows(database, Head(names))))

\* columns = set(); for table in names: columns.update(self.columns(table))
RECURSIVE UnionColumns(_, _)
UnionColumns(database, names) ==
    IF names = <<>> THEN {}
    ELSE Range(FirstColumn(ColumnsRows(database, Head(names))))
             \cup UnionColumns(database, Tail(names))

\* the queries all_columns sends: tables_query, then columns_query per table
ColumnQueries(names) ==
    IF names = <<>> THEN <<>>
    ELSE [i \in 1..Len(names) |-> <<"columns_query", names[i]>>]

\* PGExecute.all_columns(); failing: which of its queries raises (0: none,
\* 1: tables_query, 1 + i: columns_query of the i-th table)
all_columns(failing) ==
    /\ pc = "ready"
    /\ LET names == FirstColumn(TablesRows(CurrentDatabase))
           queries == << <<"tables_query">> >> \o ColumnQueries(names)
       IN  /\ failing <= Len(queries)
           /\ call' = IF failing > 0
                      THEN Call("all_columns", <<>>, "raised", "ProgrammingError", {},
                                <<>>, Some(self.conn), <<>>,
                                SubSeq(queries, 1, failing), None)
                      ELSE Call("all_columns", <<>>, "returned", "",
                                UnionColumns(CurrentDatabase, names),
                                <<>>, Some(self.conn), <<>>, queries, None)
    /\ cursors' = CursorExit(CursorEnter(cursors))
    /\ UNCHANGED <<dsn, defaults, resolved, pc, self, connections, live, created>>

\* ------------------------------------------------------- statements to run
StatementBodies ==
    { <<>>,
      <<BS, "c">>,
      <<BS, "c", " ", "a">>,
      <<BS, "c", " ", "b", " ", "x">>,
      <<"u", "s", "e">>,
      <<"u", "s", "e", " ", "a">>,
      <<"U", "s", "E", " ", "b">>,
      <<BS, "c", "d", " ", "a">>,
      <<"u", "s", "e", "r", "s">>,
      <<BS, "d">>,
      <<"q">> }

\* <<leading, trailing>> text put around a statement
Pads ==
    { <<<<>>, <<>>>>,
      <<<<>>, <<";">>>>,
      <<<<>>, <<" ">>>>,
      <<<<>>, <<";", ";">>>>,
      <<<<" ">>, <<";", "\n">>>> }

Padded(body, pad) == pad[1] \o body \o pad[2]

Statements == { Padded(body, pad) : body \in StatementBodies, pad \in Pads }

\* the descriptors the engine is constructed with
EngineDsns ==
    { <<"d", "b">>,
      PostgresScheme \o <<"u", ":", "w", "@", "h", ":", "5", "/", "d", "b">> }

Init ==
    /\ dsn \in EngineDsns
    /\ defaults = <<<<"U">>, <<"W">>, <<"H">>, <<"9">>>>
    /\ resolved = None
    /\ pc = "new"
    /\ self = NoSelf
    /\ connections = <<>>
    /\ call = NoCall
    /\ live = {}
    /\ cursors = 0
    /\ created = {}

Next ==
    \/ \E ok \in BOOLEAN : __init__(ok)
    \/ \E sql \in Statements : run(sql)
    \/ \E raises \in BOOLEAN : tables(raises)
    \/ \E table \in TableNames, raises \in BOOLEAN : columns(table, raises)
    \/ \E failing \in 0..(Cardinality(TableNames) + 1) : all_columns(failing)
    \/ \E raises \in BOOLEAN : databases(raises)

Spec == Init /\ [][Next]_vars

\* --------------------------------------------------- descriptors to resolve
DsnAlphabet == {"d", "/", "@", ":"}

Schemes == {<<>>, PostgresScheme, PostgresqlScheme}

Opt(s) == {<<>>, s}

\* [user[:password]@]host[:port]/dbname with every part optional
GrammarBodies ==
    { u \o w \o a \o h \o p \o s \o n :
        u \in Opt(<<"u">>), w \in Opt(<<":", "w">>), a \in Opt(<<"@">>),
        h \in Opt(<<"h">>), p \in Opt(<<":", "5">>), s \in Opt(<<"/">>),
        n \in Opt(<<"d", "b">>) }

DsnInputs ==
    { sch \o body : sch \in Schemes,
                    body \in SeqsUpTo(DsnAlphabet, MaxDsnLen) \cup GrammarBodies }

DefaultChoices ==
    { <<<<"U">>, <<"W">>, <<"H">>, <<"9">>>>,
      <<<<"u">>, <<>>, <<"h">>, <<"5">>>> }

InitDsn ==
    /\ dsn \in DsnInputs
    /\ defaults \in DefaultChoices
    /\ resolved = None
    /\ pc = "new"
    /\ self = NoSelf
    /\ connections = <<>>
    /\ call = NoCall
    /\ live = {}
    /\ cursors = 0
    /\ created = {}

\* one call of _parse_dsn(dsn, *defaults)
Resolve ==
    /\ resolved = None
    /\ resolved' = Some(_parse_dsn(dsn, defaults[1], defaults[2], defaults[3], defaults[4]))
    /\ UNCHANGED <<dsn, defaults, pc, self, connections, call, live, cursors, created>>

NextDsn == Resolve

SpecDsn == InitDsn /\ [][NextDsn]_vars

\* ------------------------------------------------ claims about _parse_dsn
\* The fields the descriptor text supplies, read off the documented format
\* [user[:password]@]host[:port]/dbname of the scheme-stripped text.
Authority(s) == partition(s, "/")[1]
Credentials(s) == IF contains(Authority(s), "@") THEN partition(Authority(s), "@")[1] ELSE <<>>
HostSpec(s) == IF contains(Authority(s), "@") THEN partition(Authority(s), "@")[3] ELSE Authority(s)
SuppliesUser(s) == contains(s, "/") /\ partition(Credentials(s), ":")[1] # <<>>
SuppliesPassword(s) == contains(s, "/") /\ partition(Credentials(s), ":")[3] # <<>>
SuppliesHost(s) == contains(s, "/") /\ partition(HostSpec(s), ":")[1] # <<>>
SuppliesPort(s) == contains(s, "/") /\ partition(HostSpec(s), ":")[3] # <<>>

\* C1: every field among user, password, host, port that the descriptor does
\* not supply comes back as its default; dbname is exactly the text after the
\* first '/' of the scheme-stripped descriptor when it has one, and the whole
\* scheme-stripped descriptor when it has none.
C1_DefaultsAndDbnameTail ==
    resolved # None =>
        LET r == resolved[1]
            s == StripScheme(dsn)
        IN  /\ ~SuppliesUser(s) => r[2] = defaults[1]
            /\ ~SuppliesPassword(s) => r[3] = defaults[2]
            /\ ~SuppliesHost(s) => r[4] = defaults[3]
            /\ ~SuppliesPort(s) => r[5] = defaults[4]
            /\ contains(s, "/") => r[1] = partition(s, "/")[3]
            /\ ~contains(s, "/") => r[1] = s

\* ------------------------------------------------ claims about PGExecute
\* How a finished call was handled, read from what it did.
CallKind(c) ==
    IF c.connects # <<>> \/ c.error = "RuntimeError" THEN "switch"
    ELSE IF c.cursor = None THEN "empty"
    ELSE IF c.executed = <<>> THEN "meta"
    ELSE "plain"

\* The documented switch-command format: the first whitespace-delimited token
\* is exactly \c, or is the word use in any letter case.
IsSwitchCommand(sql) ==
    /\ split(sql) # <<>>
    /\ \/ split(sql)[1] = <<BS, "c">>
       \/ lower(split(sql)[1]) = <<"u", "s", "e">>

HasTarget(sql) == Len(split(sql)) >= 2

Target(sql) == split(sql)[2]

\* x occurs in s as a run of consecutive elements
Names(s, x) ==
    \E i \in 1..(Len(s) - Len(x) + 1) : SubSeq(s, i, i + Len(x) - 1) = x

\* C2: a statement that is empty or only whitespace returns exactly one entry
\* (None, None, None) and performs no driver operation: no connect, no cursor,
\* nothing handed to pgspecial or to cur.execute.
C2_BlankInputReturnsAbsentEntryWithoutDriver ==
    (call.op = "run" /\ strip(call.sql) = <<>>) =>
        /\ call.outcome = "returned"
        /\ call.result = << Entry(None, None, None) >>
        /\ call.connects = <<>>
        /\ call.cursor = None
        /\ call.special = <<>>
        /\ call.executed = <<>>

\* a run() of a switch command with a target that returned
SwitchDone(c) ==
    /\ c.op = "run"
    /\ IsSwitchCommand(Normalize(c.sql))
    /\ HasTarget(Normalize(c.sql))
    /\ c.outcome = "returned"

\* C3: after a switch command with target D whose connect succeeds, dbname is
\* D, self.conn is a connection that did not exist before the call, opened with
\* the instance's user, password, host and port and database D, with
\* autocommit on; the call returns exactly one entry (None, None, message)
\* whose message names D and the user; and every cursor a later call takes is
\* taken on the most recently opened connection, which is self.conn.
C3_SwitchInstallsNewConnection ==
    /\ [][ SwitchDone(call') =>
             LET D == Target(Normalize(call'.sql))
             IN  /\ self'.dbname = D
                 /\ self'.conn \notin DOMAIN connections
                 /\ self'.conn \in DOMAIN connections'
                 /\ connections'[self'.conn] =
                        [database |-> D, user |-> self.user, password |-> self.password,
                         host |-> self.host, port |-> self.port, autocommit |-> TRUE]
                 /\ self'.user = self.user /\ self'.host = self.host
                 /\ self'.port = self.port
                 /\ Len(call'.result) = 1
                 /\ call'.result[1][1] = None /\ call'.result[1][2] = None
                 /\ call'.result[1][3] # None
                 /\ Names(call'.result[1][3][1], D)
                 /\ Names(call'.result[1][3][1], self.user)
                 /\ call'.cursor = None /\ call'.executed = <<>> ]_vars
    /\ [](call.cursor # None =>
             call.cursor = Some(self.conn) /\ self.conn = Len(connections))

\* a switch has succeeded and a later plain statement ran on the new connection
C3_witness ==
    /\ call.op = "run" /\ call.outcome = "returned" /\ call.executed # <<>>
    /\ Len(connections) >= 2
    /\ call.cursor = Some(Len(connections))
    /\ self.dbname = <<"a">>

\* C4: a switch command with no second token raises the missing-argument
\* error; no connect is attempted, nothing is returned, and dbname and the
\* connection are what they were before the call.
C4_SwitchWithoutTargetRaises ==
    [][ (call'.op = "run" /\ IsSwitchCommand(Normalize(call'.sql))
           /\ ~HasTarget(Normalize(call'.sql))) =>
          /\ call'.outcome = "raised"
          /\ call'.error = "RuntimeError"
          /\ call'.connects = <<>>
          /\ call'.result = <<>>
          /\ self' = self
          /\ connections' = connections ]_vars

\* \c without a target was run on a session that had switched before
C4_witness ==
    /\ call.op = "run" /\ call.error = "RuntimeError"
    /\ Normalize(call.sql) = <<BS, "c">>
    /\ Len(connections) >= 2

\* a run() of a switch command with a target whose connect raised
SwitchRaised(c) ==
    /\ c.op = "run"
    /\ IsSwitchCommand(Normalize(c.sql))
    /\ HasTarget(Normalize(c.sql))
    /\ c.outcome = "raised"

\* C5: when the connect of a switch command fails, the error reaches the
\* caller with nothing returned, exactly one connect was attempted (to the
\* target), dbname and the connection are unchanged, and a statement run next
\* takes its cursor on that same old connection.
C5_FailedSwitchLeavesSession ==
    [][ /\ SwitchRaised(call') =>
             /\ call'.error = "OperationalError"
             /\ call'.result = <<>>
             /\ Len(call'.connects) = 1
             /\ call'.connects[1].database = Target(Normalize(call'.sql))
             /\ self' = self
             /\ connections' = connections
        /\ (SwitchRaised(call) /\ call'.cursor # None) =>
             /\ call'.cursor = Some(self.conn)
             /\ connections'[self.conn].database = self.dbname
             /\ connections'[self.conn].autocommit ]_vars

\* a switch to b failed on a session connected to a
C5_witness ==
    /\ SwitchRaised(call)
    /\ Target(Normalize(call.sql)) = <<"b">>
    /\ self.dbname = <<"a">>
    /\ connections[self.conn].database = <<"a">>

\* a run() whose cur.execute raised
QueryRaised(c) ==
    c.op = "run" /\ c.executed # <<>> /\ c.outcome = "raised"

\* C6: when cur.execute raises on a plain statement, the error reaches the
\* caller, cur.execute was called exactly once, nothing is returned, the
\* cursor is released, dbname and the connection are unchanged, and a plain
\* statement that succeeds next returns its one normal entry from a cursor on
\* the same connection.
C6_QueryFailureIsLocal ==
    [][ /\ QueryRaised(call') =>
             /\ call'.error = "ProgrammingError"
             /\ Len(call'.executed) = 1
             /\ call'.executed[1] = Normalize(call'.sql)
             /\ call'.result = <<>>
             /\ call'.cursor = Some(self.conn)
             /\ ~call'.cursorOpen
             /\ self' = self
             /\ connections' = connections
        /\ (QueryRaised(call) /\ call'.reply # None) =>
             /\ call'.outcome = "returned"
             /\ call'.cursor = Some(self.conn)
             /\ Len(call'.result) = 1
             /\ call'.result[1][3] = Some(call'.reply[1].statusmessage) ]_vars

C6_witness ==
    /\ QueryRaised(call)
    /\ Normalize(call.sql) = <<"q">>
    /\ Len(connections) >= 2

\* the kind run() gives a statement
Classify(sql) ==
    IF sql = <<>> THEN "empty"
    ELSE IF IsSwitch(Normalize(sql)) THEN "switch"
    ELSE IF SpecialRecognizes(Normalize(sql)) THEN "meta"
    ELSE "plain"

\* C7: a statement with whitespace added around it and/or a trailing
\* semicolon is handled as the same kind (empty, switch, meta-command, plain)
\* as the statement itself, the empty statement included.
C7_PaddingKeepsKind ==
    call.op = "run" =>
        \A body \in StatementBodies : \A pad \in Pads :
            call.sql = Padded(body, pad) => CallKind(call) = Classify(body)

C9_ConstructionAndAutocommit ==
    LET r == _parse_dsn(dsn, defaults[1], defaults[2], defaults[3], defaults[4])
    IN  /\ (call.op = "__init__" /\ call.outcome = "returned") =>
               /\ pc = "ready"
               /\ Len(connections) = 1
               /\ self.conn = 1
               /\ Len(call.connects) = 1
               /\ connections[1] =
                      [database |-> r[1], user |-> r[2], password |-> r[3],
                       host |-> r[4], port |-> r[5], autocommit |-> TRUE]
               /\ <<self.dbname, self.user, self.password, self.host, self.port>> = r
        /\ (call.op = "__init__" /\ call.outcome = "raised") =>
               pc = "failed"
        /\ pc = "failed" => (self = NoSelf /\ connections = <<>>)
        /\ pc = "ready" =>
               /\ self.conn \in DOMAIN connections
               /\ connections[self.conn].autocommit

\* an instance that has switched once and then failed to switch again
C9_witness ==
    /\ pc = "ready"
    /\ Len(connections) >= 2
    /\ SwitchRaised(call)

\* C10: run() handles a statement as a database switch exactly when the first
\* token of the normalized text is \c itself or the word use in any letter
\* case; the second token is the target and later tokens are ignored.
C10_SwitchIffFirstTokenExact ==
    call.op = "run" =>
        /\ CallKind(call) = "switch" <=> IsSwitchCommand(Normalize(call.sql))
        /\ call.connects # <<>> =>
               call.connects[1].database = Target(Normalize(call.sql))

\* C11: for a non-empty statement the switch test comes first: a call taken as
\* a switch gives nothing to pgspecial or cur.execute and takes no cursor, and
\* a statement in the documented switch format is always taken as a switch.
\* Every other call gives the normalized text to pgspecial; cur.execute is
\* called, once and with the normalized text, exactly when pgspecial did not
\* recognize it; when pgspecial recognizes it, what pgspecial returned is what
\* run() returns and cur.execute is not called.
C11_DispatchOrder ==
    (call.op = "run" /\ call.sql # <<>>) =>
        LET n == Normalize(call.sql)
        IN  /\ CallKind(call) = "switch" =>
                 (call.special = <<>> /\ call.executed = <<>> /\ call.cursor = None)
            /\ IsSwitchCommand(n) => CallKind(call) = "switch"
            /\ CallKind(call) # "switch" => call.special = <<n>>
            /\ call.executed # <<>> <=>
                 (CallKind(call) # "switch" /\ ~SpecialRecognizes(n))
            /\ call.executed # <<>> => call.executed = <<n>>
            /\ (CallKind(call) # "switch" /\ SpecialRecognizes(n)
                  /\ call.outcome = "returned") => call.result \in SpecialResults

\* pgspecial handled \d on a session that had switched, returning two entries
C11_witness ==
    /\ call.op = "run" /\ call.outcome = "returned"
    /\ call.special = << <<BS, "d">> >>
    /\ call.executed = <<>>
    /\ Len(call.result) = 2
    /\ Len(connections) >= 2

\* C14, as stated: the text handed on is the stripped statement with exactly
\* one trailing semicolon removed, if it ends in one.
C14_ExactlyOneSemicolonRemoved ==
    (call.op = "run" /\ call.special # <<>>) =>
        LET s == strip(call.sql)
        IN  call.special[1] =
                IF s # <<>> /\ s[Len(s)] = ";" THEN SubSeq(s, 1, Len(s) - 1) ELSE s

\* C14, amended: the text handed to pgspecial and cur.execute is the stripped
\* statement with every trailing semicolon removed: it is a prefix of the
\* stripped statement, what was cut off is semicolons only, and it does not
\* end in a semicolon.
C14_AllTrailingSemicolonsRemoved ==
    (call.op = "run" /\ call.special # <<>>) =>
        LET s == strip(call.sql)
            t == call.special[1]
        IN  /\ Len(t) <= Len(s)
            /\ SubSeq(s, 1, Len(t)) = t
            /\ \A i \in (Len(t) + 1)..Len(s) : s[i] = ";"
            /\ t = <<>> \/ t[Len(t)] # ";"
            /\ call.executed # <<>> => call.executed[1] = t

\* q;; was run and q was handed on
C14_witness ==
    /\ call.op = "run"
    /\ call.sql = <<"q", ";", ";">>
    /\ call.special = << <<"q">> >>
    /\ call.executed = << <<"q">> >>

\* position of the first c in s, 0 when s has none
FirstIndex(s, c) ==
    IF \E i \in 1..Len(s) : s[i] = c
    THEN CHOOSE i \in 1..Len(s) : s[i] = c /\ \A j \in 1..(i - 1) : s[j] # c
    ELSE 0

Before(s, i) == IF i = 0 THEN s ELSE SubSeq(s, 1, i - 1)

After(s, i) == IF i = 0 THEN <<>> ELSE SubSeq(s, i + 1, Len(s))

IfEmpty(part, default) == IF part = <<>> THEN default ELSE part

\* C15: without a '/' in the scheme-stripped descriptor nothing is parsed: the
\* result is the whole text as dbname and the four defaults, whatever '@' or
\* ':' the text holds.  With a '/', the text before the first '/' is split at
\* its first '@' into credentials and host part, the host part at its first
\* ':' into host and port, the credentials at their first ':' into user and
\* password, an empty part giving way to its default; credentials without a
\* ':' give user = the credentials and password = the default.
C15_AuthorityParsing ==
    resolved # None =>
        LET r == resolved[1]
            s == StripScheme(dsn)
            authority == Before(s, FirstIndex(s, "/"))
            at == FirstIndex(authority, "@")
            credentials == IF at = 0 THEN <<>> ELSE Before(authority, at)
            hostpart == IF at = 0 THEN authority ELSE After(authority, at)
        IN  IF FirstIndex(s, "/") = 0
            THEN r = <<s, defaults[1], defaults[2], defaults[3], defaults[4]>>
            ELSE /\ r[2] = IfEmpty(Before(credentials, FirstIndex(credentials, ":")),
                                   defaults[1])
                 /\ r[3] = IfEmpty(After(credentials, FirstIndex(credentials, ":")),
                                   defaults[2])
                 /\ r[4] = IfEmpty(Before(hostpart, FirstIndex(hostpart, ":")),
                                   defaults[3])
                 /\ r[5] = IfEmpty(After(hostpart, FirstIndex(hostpart, ":")),
                                   defaults[4])
                 /\ (credentials # <<>> /\ FirstIndex(credentials, ":") = 0) =>
                        (r[2] = credentials /\ r[3] = defaults[2])

\* a descriptor with '@' and ':' but no '/' was resolved to the defaults
C15_witness ==
    /\ resolved # None
    /\ dsn = <<"d", "@", "d", ":">>
    /\ resolved[1] = <<dsn, defaults[1], defaults[2], defaults[3], defaults[4]>>

\* credentials without a password, in a descriptor with a '/', were resolved
C15_witness_credentials ==
    /\ resolved # None
    /\ StripScheme(dsn) = <<"u", "@", "h", "/", "d", "b">>
    /\ resolved[1][2] = <<"u">>
    /\ resolved[1][3] = defaults[2]

\* the calls that go through a `with self.conn.cursor() as cur` block
QueryPath(c) ==
    \/ c.op \in {"tables", "columns", "all_columns", "databases"}
    \/ c.op = "run" /\ CallKind(c) \in {"meta", "plain"}

\* C12: every query path (meta-command, plain statement, tables, columns,
\* all_columns, databases) takes its cursor on the current connection and has
\* released it when the call ends, returned or raised; between calls no cursor
\* is open.
C12_CursorReleasedOnEveryExit ==
    /\ cursors = 0
    /\ QueryPath(call) =>
           /\ call.cursor = Some(self.conn)
           /\ ~call.cursorOpen
           /\ call.outcome \in {"returned", "raised"}

\* all_columns left through the error path: the columns query of its first
\* table raised, and no cursor stayed open
C12_witness ==
    /\ call.op = "all_columns" /\ call.outcome = "raised"
    /\ Len(call.executed) = 2
    /\ call.cursor = Some(self.conn)
    /\ cursors = 0

\* C13, as stated: between calls at most one driver connection is open, the
\* current one; a successful switch has closed the connection it replaced.
C13_SingleLiveConnection ==
    pc = "ready" => (Cardinality(live) <= 1 /\ live = {self.conn})

\* C16: in every step after construction user, password, host and port stay
\* what they were; dbname and conn change only in a run() that was taken as a
\* switch and returned; an empty statement, a meta-command, a plain statement
\* (returned or raised), a switch that raised and the four helpers leave
\* dbname and conn as they were.
C16_SessionFrame ==
    [][ pc = "ready" =>
          /\ self'.user = self.user
          /\ self'.password = self.password
          /\ self'.host = self.host
          /\ self'.port = self.port
          /\ (self'.dbname # self.dbname \/ self'.conn # self.conn) =>
                 (call'.op = "run" /\ CallKind(call') = "switch"
                    /\ call'.outcome = "returned")
          /\ ( \/ call'.op \in {"tables", "columns", "all_columns", "databases"}
               \/ call'.outcome = "raised"
               \/ CallKind(call') \in {"empty", "meta", "plain"} ) =>
                 (self'.dbname = self.dbname /\ self'.conn = self.conn) ]_vars

\* a helper raised on a session that had switched: the session still holds the
\* switched-to database, the second connection and the user it was built with
C16_witness ==
    /\ call.op = "columns" /\ call.outcome = "raised"
    /\ Len(connections) >= 2
    /\ self.conn = Len(connections)
    /\ self.dbname = <<"b">>
    /\ self.user = connections[1].user

\* C17: between calls dbname is the database the current connection was
\* opened against, after construction, switches (completed or failed) and
\* queries (completed or failed).
C17_DbnameIsConnectionDatabase ==
    pc = "ready" =>
        /\ self.conn \in DOMAIN connections
        /\ connections[self.conn].database = self.dbname

\* a switch failed after an earlier switch had succeeded
C17_witness ==
    /\ SwitchRaised(call)
    /\ call.error = "OperationalError"
    /\ Len(connections) >= 2
    /\ self.conn = Len(connections)
    /\ connections[self.conn].database = self.dbname
    /\ self.dbname # connections[1].database

\* C18: all_columns returns the union, over the tables tables() lists at that
\* moment on the current connection, of what columns() lists for each; it asks
\* the server again on every call (tables_query, then one columns_query per
\* listed table), so after a switch it holds only the new database's columns,
\* and with no visible table it is the empty set.
C18_AllColumnsIsFreshUnion ==
    (call.op = "all_columns" /\ call.outcome = "returned") =>
        LET database == connections[Len(connections)].database
            listed == TablesIn(database)
        IN  /\ call.cursor = Some(Len(connections))
            /\ call.result =
                 UNION { Range(FirstColumn(ColumnsRows(database, table))) :
                           table \in listed }
            /\ listed = {} => call.result = {}
            /\ call.executed[1] = <<"tables_query">>
            /\ Len(call.executed) = 1 + Cardinality(listed)
            /\ \A table \in listed :
                   \E i \in 2..Len(call.executed) :
                       call.executed[i] = <<"columns_query", table>>

\* all_columns after a switch to a database with two tables
C18_witness ==
    /\ call.op = "all_columns" /\ call.outcome = "returned"
    /\ Len(connections) >= 2
    /\ self.dbname = <<"a">>
    /\ connections[1].database # <<"a">>
    /\ call.result = {"id", "x", "y"}

\* all_columns on a database with no visible table
C18_witness_empty ==
    /\ call.op = "all_columns" /\ call.outcome = "returned"
    /\ TablesIn(CurrentDatabase) = {}
    /\ call.result = {}

====
